---------------------------- MODULE Spec2Model ----------------------------
(***************************************************************************)
(* A model of the x8Dsub-byte tensor container: the Dtype catalogue, the   *)
(* Metadata model and its validation, the layout planner and the writer    *)
(* (prepare / serialize), the reader (read_metadata / deserialize /        *)
(* tensor / tensors / iter) and the slicing engine (SliceIterator).        *)
(*                                                                         *)
(* Buffers are sequences of bytes (0..255); the JSON header is modelled    *)
(* byte by byte.  Names are sequences of ASCII codes.  usize is a word of  *)
(* UsizeBits bits; arithmetic the source leaves unchecked either wraps     *)
(* (overflow checks off, the release profile) or panics (overflow checks   *)
(* on, the dev profile), as selected by the variable overflow_checks.      *)
(***************************************************************************)
EXTENDS Integers, Sequences, FiniteSets, TLC

(***************************************************************************)
(* Bounds of the model.                                                    *)
(***************************************************************************)
\* width of usize in the model (64 in the real build)
UsizeBits == 28
\* number of (name, tensor) pairs handed to serialize
MaxTensors == 2
\* number of entries of a header written by another producer
MaxEntries == 2

(***************************************************************************)
(* Program constants.                                                      *)
(***************************************************************************)
MAX_HEADER_SIZE == 100000000
N_LEN == 8

UsizeMod == 2 ^ UsizeBits
UsizeMax == UsizeMod - 1

(***************************************************************************)
(* Generic helpers on sequences.                                           *)
(***************************************************************************)
Min(a, b) == IF a <= b THEN a ELSE b

Range(s) == {s[i] : i \in 1..Len(s)}

\* &s[a..b] with 0-based half-open bounds, for 0 <= a <= b <= Len(s)
Slice0(s, a, b) == [i \in 1..(b - a) |-> s[a + i]]

RECURSIVE Concat(_)
Concat(ss) == IF ss = <<>> THEN <<>> ELSE Head(ss) \o Concat(Tail(ss))

\* lexicographic order of byte strings (Ord for str / String)
RECURSIVE StrLess(_, _)
StrLess(a, b) ==
    IF b = <<>> THEN FALSE
    ELSE IF a = <<>> THEN TRUE
    ELSE IF a[1] /= b[1] THEN a[1] < b[1]
    ELSE StrLess(Tail(a), Tail(b))

(***************************************************************************)
(* usize arithmetic.  Overflow is the value returned by a checked          *)
(* operation that failed (None); Panic is the outcome of an unchecked      *)
(* operation that overflowed with overflow checks on.                      *)
(***************************************************************************)
Overflow == -1
Panic == -2

checked_mul(a, b) ==
    IF a = Overflow \/ b = Overflow THEN Overflow
    ELSE IF b /= 0 /\ a > UsizeMax \div b THEN Overflow
    ELSE a * b

checked_add(a, b) == IF a + b > UsizeMax THEN Overflow ELSE a + b

\* (a * b) mod 2^UsizeBits, computed without leaving the model's integers:
\* both factors are split at half a word, and each partial product is reduced
\* before it is shifted
WrapMul(a, b) ==
    LET h == 2 ^ (UsizeBits \div 2)
    IN  ( (((a \div h) * (b \div h)) % (UsizeMod \div (h * h))) * (h * h)
        + (((a \div h) * (b % h) + (a % h) * (b \div h)) % (UsizeMod \div h)) * h
        + (a % h) * (b % h) ) % UsizeMod

\* a * b as the build computes it: panics or wraps on overflow
UncheckedMul(a, b, checks) ==
    IF a = Panic \/ b = Panic THEN Panic
    ELSE IF checked_mul(a, b) = Overflow
         THEN (IF checks THEN Panic ELSE WrapMul(a, b))
    ELSE a * b

\* a + b as the build computes it: panics or wraps on overflow
UncheckedAdd(a, b, checks) ==
    IF a = Panic \/ b = Panic THEN Panic
    ELSE IF a + b > UsizeMax THEN (IF checks THEN Panic ELSE (a + b) % UsizeMod)
    ELSE a + b

\* shape.iter().copied().try_fold(1usize, usize::checked_mul)
RECURSIVE CheckedProduct(_)
CheckedProduct(shape) ==
    IF shape = <<>> THEN 1
    ELSE checked_mul(CheckedProduct(SubSeq(shape, 1, Len(shape) - 1)), shape[Len(shape)])

\* shape.iter().product()
RECURSIVE UncheckedProduct(_, _)
UncheckedProduct(shape, checks) ==
    IF shape = <<>> THEN 1
    ELSE UncheckedMul(UncheckedProduct(SubSeq(shape, 1, Len(shape) - 1), checks),
                      shape[Len(shape)], checks)

\* the product of a shape as a mathematical integer, saturated above the word
\* (any value above UsizeMax is reported as UsizeMod)
RECURSIVE MathProduct(_)
MathProduct(shape) ==
    IF shape = <<>> THEN 1
    ELSE LET p == MathProduct(Tail(shape))
         IN  IF Head(shape) = 0 \/ p = 0 THEN 0
             ELSE IF p > UsizeMax \div Head(shape) THEN UsizeMod
             ELSE Min(UsizeMod, p * Head(shape))

(***************************************************************************)
(* Dtype catalogue.                                                        *)
(***************************************************************************)
\* the variants in declaration order, which is the derived Ord
DtypeList ==
    << "BOOL", "F4", "F6_E2M3", "F6_E3M2", "U8", "I8", "F8_E5M2", "F8_E4M3",
       "F8_E8M0", "I16", "U16", "F16", "BF16", "I32", "U32", "F32", "C64",
       "F64", "I64", "U64" >>

Dtype == Range(DtypeList)

\* position of a variant in the enum: a < b iff DtypeOrd(a) < DtypeOrd(b)
DtypeOrd(d) == CHOOSE i \in 1..Len(DtypeList) : DtypeList[i] = d

bitsize(d) ==
    CASE d = "F4" -> 4
      [] d \in {"F6_E3M2", "F6_E2M3"} -> 6
      [] d \in {"BOOL", "U8", "I8", "F8_E5M2", "F8_E4M3", "F8_E8M0"} -> 8
      [] d \in {"I16", "U16", "F16", "BF16"} -> 16
      [] d \in {"I32", "U32", "F32"} -> 32
      [] d \in {"I64", "U64", "F64", "C64"} -> 64

\* Dtype::size, the deprecated byte size
size(d) == bitsize(d) \div 8

\* the serialized tag of a variant, as ASCII bytes
DtypeTag(d) ==
    CASE d = "BOOL" -> <<66, 79, 79, 76>>
      [] d = "F4" -> <<70, 52>>
      [] d = "F6_E2M3" -> <<70, 54, 95, 69, 50, 77, 51>>
      [] d = "F6_E3M2" -> <<70, 54, 95, 69, 51, 77, 50>>
      [] d = "U8" -> <<85, 56>>
      [] d = "I8" -> <<73, 56>>
      [] d = "F8_E5M2" -> <<70, 56, 95, 69, 53, 77, 50>>
      [] d = "F8_E4M3" -> <<70, 56, 95, 69, 52, 77, 51>>
      [] d = "F8_E8M0" -> <<70, 56, 95, 69, 56, 77, 48>>
      [] d = "I16" -> <<73, 49, 54>>
      [] d = "U16" -> <<85, 49, 54>>
      [] d = "F16" -> <<70, 49, 54>>
      [] d = "BF16" -> <<66, 70, 49, 54>>
      [] d = "I32" -> <<73, 51, 50>>
      [] d = "U32" -> <<85, 51, 50>>
      [] d = "F32" -> <<70, 51, 50>>
      [] d = "C64" -> <<67, 54, 52>>
      [] d = "F64" -> <<70, 54, 52>>
      [] d = "I64" -> <<73, 54, 52>>
      [] d = "U64" -> <<85, 54, 52>>

(***************************************************************************)
(* Results.                                                                *)
(***************************************************************************)
Ok(v) == [tag |-> "Ok", val |-> v]
Err(e) == [tag |-> "Err", err |-> e]
ErrName(e, n) == [tag |-> "Err", err |-> e, name |-> n]
Panicked == [tag |-> "Panic"]
NoResult == [tag |-> "None"]

IsOk(r) == r.tag = "Ok"
IsErr(r, e) == r.tag = "Err" /\ r.err = e

(***************************************************************************)
(* Metadata model.  A Metadata is a record                                 *)
(*   metadata  : the optional free-form map, [some, map] with map a          *)
(*               sequence of <<key, value>> pairs of strings                *)
(*   tensors   : the sequence of TensorInfo, [dtype, shape, data_offsets]   *)
(*   index_map : a map from names to 0-based indices into tensors           *)
(***************************************************************************)
NoInfo == [some |-> FALSE, map |-> <<>>]
SomeInfo(pairs) == [some |-> TRUE, map |-> pairs]

TensorInfo(d, sh, s, e) == [dtype |-> d, shape |-> sh, data_offsets |-> <<s, e>>]

\* "no_tensor"
NoTensorName == <<110, 111, 95, 116, 101, 110, 115, 111, 114>>

\* index_map.insert(k, index) over the enumerated pairs: a later pair of the
\* same name replaces the index of an earlier one
IndexMapOf(pairs) ==
    [n \in {pairs[i][1] : i \in 1..Len(pairs)} |->
        (CHOOSE i \in 1..Len(pairs) :
            /\ pairs[i][1] = n
            /\ \A j \in 1..Len(pairs) : pairs[j][1] = n => j <= i) - 1]

\* index_map.iter().find_map(|(name, &index)| index == i).unwrap_or("no_tensor")
NameOfIndex(index_map, i) ==
    IF \E n \in DOMAIN index_map : index_map[n] = i
    THEN CHOOSE n \in DOMAIN index_map : index_map[n] = i
    ELSE NoTensorName

\* a size check that lets a difference of one byte pass
SizeDiffersByTwo(info, nbits) ==
    \/ info.data_offsets[2] - info.data_offsets[1] > nbits \div 8 + 1
    \/ info.data_offsets[2] - info.data_offsets[1] < nbits \div 8 - 1

\* e - s != size, with size = nbits / 8
SizeDiffers(info, nbits) ==
    info.data_offsets[2] - info.data_offsets[1] /= nbits \div 8

\* the loop of Metadata::validate from entry i (1-based) with cursor start
RECURSIVE ValidateFrom(_, _, _)
ValidateFrom(m, i, start) ==
    IF i > Len(m.tensors) THEN Ok(start)
    ELSE
      LET info == m.tensors[i]
          s == info.data_offsets[1]
          e == info.data_offsets[2]
          nelements == CheckedProduct(info.shape)
          nbits == checked_mul(nelements, bitsize(info.dtype))
      IN  IF s /= start \/ e < s
            THEN ErrName("InvalidOffset", NameOfIndex(m.index_map, i - 1))
          ELSE IF nelements = Overflow THEN Err("ValidationOverflow")
          ELSE IF nbits = Overflow THEN Err("ValidationOverflow")
          ELSE IF nbits % 8 /= 0 THEN Err("MisalignedSlice")
          ELSE IF SizeDiffers(info, nbits) THEN Err("TensorInvalidInfo")
          ELSE ValidateFrom(m, i + 1, e)

\* Metadata::validate: Ok(total payload length) or the first error
validate(m) == ValidateFrom(m, 1, 0)

\* Metadata::new
MetadataNew(metadata, pairs) ==
    LET m == [metadata |-> metadata,
              tensors |-> [i \in 1..Len(pairs) |-> pairs[i][2]],
              index_map |-> IndexMapOf(pairs)]
        r == validate(m)
    IN  IF IsOk(r) THEN Ok(m) ELSE r

\* TensorView::new
TensorViewNew(dtype, shape, data, checks) ==
    LET n_elements == UncheckedProduct(shape, checks)
        nbits == UncheckedMul(n_elements, bitsize(dtype), checks)
    IN  IF nbits = Panic THEN Panicked
        ELSE IF nbits % 8 /= 0 THEN Err("MisalignedSlice")
        ELSE IF Len(data) /= nbits \div 8 THEN Err("InvalidTensorView")
        ELSE Ok([dtype |-> dtype, shape |-> shape, data |-> data])

(***************************************************************************)
(* JSON text of the header, as serde_json writes it (compact) for the      *)
(* Serialize impl of Metadata and the derived Serialize of TensorInfo.     *)
(***************************************************************************)
\* "__metadata__"
MetadataKey == <<95, 95, 109, 101, 116, 97, 100, 97, 116, 97, 95, 95>>

RECURSIVE Digits(_)
Digits(n) == IF n < 10 THEN <<48 + n>> ELSE Digits(n \div 10) \o <<48 + (n % 10)>>

\* the escapes of a JSON string: the quote and the backslash (names of the
\* model hold no control characters)
RECURSIVE Escape(_)
Escape(s) ==
    IF s = <<>> THEN <<>>
    ELSE (IF Head(s) \in {34, 92} THEN <<92, Head(s)>> ELSE <<Head(s)>>) \o Escape(Tail(s))

JsonString(s) == <<34>> \o Escape(s) \o <<34>>

\* items joined by commas
RECURSIVE Join(_)
Join(items) ==
    IF items = <<>> THEN <<>>
    ELSE IF Len(items) = 1 THEN items[1]
    ELSE items[1] \o <<44>> \o Join(Tail(items))

JsonUintArray(ns) == <<91>> \o Join([i \in 1..Len(ns) |-> Digits(ns[i])]) \o <<93>>

\* {"dtype":"<TAG>","shape":[..],"data_offsets":[s,e]}
JsonTensorInfo(info) ==
    <<123, 34, 100, 116, 121, 112, 101, 34, 58>> \o JsonString(DtypeTag(info.dtype))
    \o <<44, 34, 115, 104, 97, 112, 101, 34, 58>> \o JsonUintArray(info.shape)
    \o <<44, 34, 100, 97, 116, 97, 95, 111, 102, 102, 115, 101, 116, 115, 34, 58>>
    \o JsonUintArray(info.data_offsets) \o <<125>>

JsonStringMap(pairs) ==
    <<123>> \o Join([i \in 1..Len(pairs) |->
                        JsonString(pairs[i][1]) \o <<58>> \o JsonString(pairs[i][2])])
    \o <<125>>

\* a JSON object of (name, TensorInfo) members in the given order, after the
\* optional "__metadata__" member
JsonHeader(info, pairs) ==
    LET meta == IF info.some
                THEN << JsonString(MetadataKey) \o <<58>> \o JsonStringMap(info.map) >>
                ELSE <<>>
        members == [i \in 1..Len(pairs) |->
                        JsonString(pairs[i][1]) \o <<58>> \o JsonTensorInfo(pairs[i][2])]
    IN  <<123>> \o Join(meta \o members) \o <<125>>

\* impl Serialize for Metadata, through serde_json::to_string: the names are
\* placed by index in a vector of index_map.len() slots (an index beyond it
\* panics), then zipped with the tensors
SerializeMetadata(m) ==
    LET k == Cardinality(DOMAIN m.index_map)
        names == [i \in 1..k |->
                    IF \E n \in DOMAIN m.index_map : m.index_map[n] = i - 1
                    THEN CHOOSE n \in DOMAIN m.index_map : m.index_map[n] = i - 1
                    ELSE <<>>]
        z == Min(k, Len(m.tensors))
    IN  IF \E n \in DOMAIN m.index_map : m.index_map[n] >= k THEN Panicked
        ELSE Ok(JsonHeader(m.metadata, [i \in 1..z |-> <<names[i], m.tensors[i]>>]))

(***************************************************************************)
(* Parsing of the header, as serde_json::from_str::<HashMetadata> reads    *)
(* it: a JSON object whose "__metadata__" member is an optional map of     *)
(* strings and whose other members are TensorInfo objects, with white      *)
(* space allowed between tokens and nothing but white space after the      *)
(* object.  The grammar covers what the writers of the model produce:      *)
(* \u escapes, members of a TensorInfo other than its three fields and the *)
(* array form of a struct are outside it and are read as malformed.        *)
(***************************************************************************)
Fail == [ok |-> FALSE, pos |-> 0, val |-> <<>>]
Got(p, v) == [ok |-> TRUE, pos |-> p, val |-> v]

\* the byte at position i, or -1 outside the text
At(s, i) == IF i >= 1 /\ i <= Len(s) THEN s[i] ELSE -1

IsDigit(c) == c \in 48..57

RECURSIVE SkipWs(_, _)
SkipWs(s, i) == IF At(s, i) \in {32, 9, 10, 13} THEN SkipWs(s, i + 1) ELSE i

\* the character an escape letter stands for, or -1
Unescape(c) ==
    CASE c = 34 -> 34 [] c = 92 -> 92 [] c = 47 -> 47 [] c = 98 -> 8
      [] c = 102 -> 12 [] c = 110 -> 10 [] c = 114 -> 13 [] c = 116 -> 9
      [] OTHER -> -1

\* whether the byte at p belongs to the escape begun right before it: the
\* backslashes that end at p - 1, counted from the start i of the body, are odd
\* in number
Escaped(s, i, p) ==
    /\ p > i
    /\ At(s, p - 1) = 92
    /\ \E r \in i..(p - 1) :
          /\ \A q \in r..(p - 1) : At(s, q) = 92
          /\ r = i \/ At(s, r - 1) /= 92
          /\ (p - r) % 2 = 1

\* whether the reading of a string body stops at p: at its closing quote, at a
\* control byte or the end of the text, or at an escape that is none
StrStops(s, i, p) ==
    /\ ~Escaped(s, i, p)
    /\ \/ At(s, p) = 34
       \/ At(s, p) < 32
       \/ At(s, p) = 92 /\ Unescape(At(s, p + 1)) = -1

\* the first position from i where the reading stops
StrEnd(s, i) ==
    CHOOSE p \in i..(Len(s) + 1) :
        StrStops(s, i, p) /\ \A q \in i..(p - 1) : ~StrStops(s, i, q)

\* the characters of the body in i..e-1, each escape replaced by what it
\* stands for
StrChars(s, i, e) ==
    SelectSeq([n \in 1..(e - i) |->
                  IF Escaped(s, i, i + n - 1) THEN Unescape(At(s, i + n - 1))
                  ELSE IF At(s, i + n - 1) = 92 THEN -2
                  ELSE At(s, i + n - 1)],
              LAMBDA c : c /= -2)

\* the body of a string from i, the byte after its opening quote, read up to e
ParseStrBody(s, i, e) ==
    IF At(s, e) /= 34 THEN Fail ELSE Got(e + 1, StrChars(s, i, e))

ParseString(s, i) ==
    IF At(s, i) = 34 THEN ParseStrBody(s, i + 1, StrEnd(s, i + 1)) ELSE Fail

\* the digits of a usize; a value beyond the word is out of range
RECURSIVE ParseDigits(_, _, _)
ParseDigits(s, i, acc) ==
    LET c == At(s, i)
    IN  IF ~IsDigit(c) THEN Got(i, acc)
        ELSE IF acc > (UsizeMax - (c - 48)) \div 10 THEN Fail
        ELSE ParseDigits(s, i + 1, acc * 10 + (c - 48))

ParseUint(s, i) ==
    IF At(s, i) = 48 THEN (IF IsDigit(At(s, i + 1)) THEN Fail ELSE Got(i + 1, 0))
    ELSE IF IsDigit(At(s, i)) THEN ParseDigits(s, i, 0)
    ELSE Fail

RECURSIVE ParseUintItems(_, _, _)
ParseUintItems(s, i, acc) ==
    LET n == ParseUint(s, i)
        j == SkipWs(s, n.pos)
    IN  IF ~n.ok THEN Fail
        ELSE IF At(s, j) = 44 THEN ParseUintItems(s, SkipWs(s, j + 1), Append(acc, n.val))
        ELSE IF At(s, j) = 93 THEN Got(j + 1, Append(acc, n.val))
        ELSE Fail

ParseUintArray(s, i) ==
    IF At(s, i) /= 91 THEN Fail
    ELSE LET j == SkipWs(s, i + 1)
         IN  IF At(s, j) = 93 THEN Got(j + 1, <<>>) ELSE ParseUintItems(s, j, <<>>)

IsDtypeTag(v) == \E d \in Dtype : DtypeTag(d) = v
DtypeOfTag(v) == CHOOSE d \in Dtype : DtypeTag(d) = v

\* the value of e handed to F, evaluated once
Bind(e, F(_)) == CHOOSE r \in {F(x) : x \in {e}} : TRUE

\* the position of the colon after the key k, and of the value after it
ColonOf(s, k) == SkipWs(s, k.pos)
ValueOf(s, k) == SkipWs(s, ColonOf(s, k) + 1)

\* the key of a field of TensorInfo, in bytes
FieldKey(f) ==
    CASE f = "dtype" -> <<100, 116, 121, 112, 101>>
      [] f = "shape" -> <<115, 104, 97, 112, 101>>
      [] f = "data_offsets" -> <<100, 97, 116, 97, 95, 111, 102, 102, 115, 101, 116, 115>>

\* one member of a TensorInfo object from the key at i: the position after its
\* value and acc with the field set; acc holds each field as <<>> (not seen)
\* or <<value>>
ParseInfoMember(s, i, acc) ==
    Bind(ParseString(s, i), LAMBDA k :
    Bind(IF k.val = FieldKey("dtype") THEN ParseString(s, ValueOf(s, k))
         ELSE ParseUintArray(s, ValueOf(s, k)), LAMBDA v :
        IF ~k.ok \/ At(s, ColonOf(s, k)) /= 58 \/ ~v.ok THEN Fail
        ELSE IF k.val = FieldKey("dtype")
             THEN (IF acc.dtype = <<>> /\ IsDtypeTag(v.val)
                   THEN Got(SkipWs(s, v.pos), [acc EXCEPT !.dtype = <<DtypeOfTag(v.val)>>])
                   ELSE Fail)
        ELSE IF k.val = FieldKey("shape")
             THEN (IF acc.shape = <<>>
                   THEN Got(SkipWs(s, v.pos), [acc EXCEPT !.shape = <<v.val>>])
                   ELSE Fail)
        ELSE IF k.val = FieldKey("data_offsets")
             THEN (IF acc.data_offsets = <<>> /\ Len(v.val) = 2
                   THEN Got(SkipWs(s, v.pos), [acc EXCEPT !.data_offsets = <<v.val>>])
                   ELSE Fail)
        ELSE Fail))

\* the members of a TensorInfo object from the key at i, up to the closing
\* brace
RECURSIVE ParseInfoMembers(_, _, _)
ParseInfoMembers(s, i, acc) ==
    Bind(ParseInfoMember(s, i, acc), LAMBDA m :
        IF ~m.ok THEN Fail
        ELSE IF At(s, m.pos) = 44 THEN ParseInfoMembers(s, SkipWs(s, m.pos + 1), m.val)
        ELSE IF At(s, m.pos) = 125
             THEN (IF m.val.dtype = <<>> \/ m.val.shape = <<>> \/ m.val.data_offsets = <<>>
                   THEN Fail
                   ELSE Got(m.pos + 1, [dtype |-> m.val.dtype[1], shape |-> m.val.shape[1],
                                        data_offsets |-> m.val.data_offsets[1]]))
        ELSE Fail)

ParseTensorInfo(s, i) ==
    IF At(s, i) /= 123 THEN Fail
    ELSE ParseInfoMembers(s, SkipWs(s, i + 1),
                          [dtype |-> <<>>, shape |-> <<>>, data_offsets |-> <<>>])

\* a pair added to a map kept as a sequence: a key already there is replaced
PutPair(pairs, k, v) == SelectSeq(pairs, LAMBDA p : p[1] /= k) \o << <<k, v>> >>

RECURSIVE ParseMapMembers(_, _, _)
ParseMapMembers(s, i, acc) ==
    Bind(ParseString(s, i), LAMBDA k :
    Bind(ParseString(s, ValueOf(s, k)), LAMBDA v :
        IF ~k.ok \/ At(s, ColonOf(s, k)) /= 58 THEN Fail
        ELSE IF ~v.ok THEN Fail
        ELSE IF At(s, SkipWs(s, v.pos)) = 44
             THEN ParseMapMembers(s, SkipWs(s, SkipWs(s, v.pos) + 1),
                                  PutPair(acc, k.val, v.val))
        ELSE IF At(s, SkipWs(s, v.pos)) = 125
             THEN Got(SkipWs(s, v.pos) + 1, SomeInfo(PutPair(acc, k.val, v.val)))
        ELSE Fail))

\* Option<HashMap<String, String>>: null or an object of strings
ParseOptionMap(s, i) ==
    IF /\ At(s, i) = 110 /\ At(s, i + 1) = 117 /\ At(s, i + 2) = 108 /\ At(s, i + 3) = 108
    THEN Got(i + 4, NoInfo)
    ELSE IF At(s, i) /= 123 THEN Fail
    ELSE IF At(s, SkipWs(s, i + 1)) = 125 THEN Got(SkipWs(s, i + 1) + 1, SomeInfo(<<>>))
    ELSE ParseMapMembers(s, SkipWs(s, i + 1), <<>>)

\* one member of the header object from the key at i: the position after its
\* value and acc with the member added; acc.meta is <<>> or <<the free-form
\* map>>, acc.tensors the (name, TensorInfo) pairs read so far
ParseHeaderMember(s, i, acc) ==
    Bind(ParseString(s, i), LAMBDA k :
    Bind(IF k.val = MetadataKey THEN ParseOptionMap(s, ValueOf(s, k))
         ELSE ParseTensorInfo(s, ValueOf(s, k)), LAMBDA v :
        IF ~k.ok \/ At(s, ColonOf(s, k)) /= 58 THEN Fail
        ELSE IF k.val = MetadataKey /\ acc.meta /= <<>> THEN Fail
        ELSE IF ~v.ok THEN Fail
        ELSE Got(SkipWs(s, v.pos),
                 IF k.val = MetadataKey THEN [acc EXCEPT !.meta = <<v.val>>]
                 ELSE [acc EXCEPT !.tensors = PutPair(acc.tensors, k.val, v.val)])))

\* the members of the header object from the key at i, up to the closing brace
RECURSIVE ParseHeaderMembers(_, _, _)
ParseHeaderMembers(s, i, acc) ==
    Bind(ParseHeaderMember(s, i, acc), LAMBDA m :
        IF ~m.ok THEN Fail
        ELSE IF At(s, m.pos) = 44 THEN ParseHeaderMembers(s, SkipWs(s, m.pos + 1), m.val)
        ELSE IF At(s, m.pos) = 125 THEN Got(m.pos + 1, m.val)
        ELSE Fail)

\* the pairs read, as the HashMap they are collected in
MapOfPairs(pairs) ==
    [n \in {pairs[x][1] : x \in 1..Len(pairs)} |->
        (CHOOSE p \in Range(pairs) : p[1] = n)[2]]

\* the first member of the header object, after the opening brace
FirstMember(s) == SkipWs(s, SkipWs(s, 1) + 1)

\* serde_json::from_str::<HashMetadata>: the free-form map and the tensors by
\* name (a HashMap: a map from names to TensorInfo)
ParseHeader(s) ==
    Bind(IF At(s, FirstMember(s)) = 125
         THEN Got(FirstMember(s) + 1, [meta |-> <<>>, tensors |-> <<>>])
         ELSE ParseHeaderMembers(s, FirstMember(s), [meta |-> <<>>, tensors |-> <<>>]),
         LAMBDA r :
        IF At(s, SkipWs(s, 1)) /= 123 THEN Fail
        ELSE IF ~r.ok THEN Fail
        ELSE IF SkipWs(s, r.pos) /= Len(s) + 1 THEN Fail
        ELSE Got(Len(s) + 1,
                 [metadata |-> IF r.val.meta = <<>> THEN NoInfo ELSE r.val.meta[1],
                  tensors |-> MapOfPairs(r.val.tensors)]))

(***************************************************************************)
(* Bytes: the length prefix, UTF-8, and the scalar transform of the        *)
(* payload.                                                                *)
(***************************************************************************)
\* n.to_le_bytes() for the k low bytes
RECURSIVE LeBytes(_, _)
LeBytes(n, k) == IF k = 0 THEN <<>> ELSE <<n % 256>> \o LeBytes(n \div 256, k - 1)

\* u64::from_le_bytes(arr).try_into::<usize>(): the value, or Overflow when it
\* does not fit the word
RECURSIVE FromLeBytes(_)
FromLeBytes(arr) ==
    IF arr = <<>> THEN 0
    ELSE LET r == FromLeBytes(Tail(arr))
         IN  IF r = Overflow THEN Overflow
             ELSE IF r > (UsizeMax - Head(arr)) \div 256 THEN Overflow
             ELSE Head(arr) + 256 * r

IsCont(c) == c \in 128..191

\* the number of continuation bytes a lead byte announces (0: not a lead)
ContLen(c) ==
    IF c \in 194..223 THEN 1 ELSE IF c \in 224..239 THEN 2 ELSE IF c \in 240..244 THEN 3 ELSE 0

\* the sequence led by the byte at i is well formed
LeadOk(s, i) ==
    LET c == At(s, i)
        c1 == At(s, i + 1)
        c2 == At(s, i + 2)
        c3 == At(s, i + 3)
    IN  /\ ContLen(c) >= 1 => IsCont(c1)
        /\ ContLen(c) >= 2 => IsCont(c2)
        /\ ContLen(c) >= 3 => IsCont(c3)
        /\ c = 224 => c1 \in 160..191
        /\ c = 237 => c1 \in 128..159
        /\ c = 240 => c1 \in 144..191
        /\ c = 244 => c1 \in 128..143

\* the continuation byte at i belongs to the sequence of a lead byte before it
Covered(s, i) ==
    \E j \in 1..3 :
        /\ i - j >= 1
        /\ ContLen(s[i - j]) >= j
        /\ \A m \in 1..(j - 1) : IsCont(s[i - m])

\* core::str::from_utf8(s).is_ok()
Utf8Valid(s) ==
    \A i \in 1..Len(s) :
        \/ s[i] < 128
        \/ ContLen(s[i]) >= 1 /\ LeadOk(s, i)
        \/ IsCont(s[i]) /\ Covered(s, i)

\* ((b as f64) * 0.001) as u8: the product truncated toward zero
CompressByte(b) == b \div 1000

\* (((b as f64) / 0.001).round()) as u8: the quotient, saturated at 255
DecompressByte(b) == Min(255, b * 1000)

apply_x8d_algorithm(data) == [i \in 1..Len(data) |-> CompressByte(data[i])]

reverse_x8d_algorithm(data) == [i \in 1..Len(data) |-> DecompressByte(data[i])]

(***************************************************************************)
(* Layout planner and writer.  A tensor source (trait View) is a record    *)
(* [name, dtype, shape, data, data_len].                                   *)
(***************************************************************************)
Source(n, d, sh, bytes) ==
    [name |-> n, dtype |-> d, shape |-> sh, data |-> bytes, data_len |-> Len(bytes)]

\* a comparator that orders by dtype alone and leaves names uncompared
PlannerLessNoName(l, r) == DtypeOrd(r.dtype) < DtypeOrd(l.dtype)

\* the comparator of prepare's sort_by, as "l sorts before r"
PlannerLess(l, r) ==
    \/ DtypeOrd(r.dtype) < DtypeOrd(l.dtype)
    \/ /\ r.dtype = l.dtype
       /\ StrLess(l.name, r.name)

\* x inserted behind every element it does not sort before (a stable sort)
RECURSIVE PlannerInsert(_, _)
PlannerInsert(sorted, x) ==
    IF sorted = <<>> THEN <<x>>
    ELSE IF PlannerLess(x, Head(sorted)) THEN <<x>> \o sorted
    ELSE <<Head(sorted)>> \o PlannerInsert(Tail(sorted), x)

\* data.sort_by(..) of prepare
RECURSIVE PlannerSort(_)
PlannerSort(data) ==
    IF data = <<>> THEN <<>>
    ELSE PlannerInsert(PlannerSort(SubSeq(data, 1, Len(data) - 1)), data[Len(data)])

\* the offsets before each tensor of the sorted list and after the last one:
\* a sequence of Len(sorted) + 1 cursors, Panic from the first overflow on
RECURSIVE Cursors(_, _, _)
Cursors(sorted, offset, checks) ==
    IF sorted = <<>> THEN <<offset>>
    ELSE <<offset>> \o Cursors(Tail(sorted),
                               UncheckedAdd(offset, Head(sorted).data_len, checks), checks)

\* a header left at the length of its JSON text
NextMultipleOfNone(n, k) == n

NextMultipleOf(n, k) == ((n + k - 1) \div k) * k

\* prepare: Ok([n, header_bytes, offset, tensors]), an error of Metadata::new,
\* or a panic
prepare(data, data_info, checks) ==
    LET sorted == PlannerSort(data)
        cur == Cursors(sorted, 0, checks)
        hmetadata == [i \in 1..Len(sorted) |->
                        << sorted[i].name,
                           TensorInfo(sorted[i].dtype, sorted[i].shape, cur[i], cur[i + 1]) >>]
        metadata == MetadataNew(data_info, hmetadata)
        json == SerializeMetadata(metadata.val)
        aligned == NextMultipleOf(Len(json.val), N_LEN)
    IN  IF \E i \in 1..Len(cur) : cur[i] = Panic THEN Panicked
        ELSE IF ~IsOk(metadata) THEN metadata
        ELSE IF ~IsOk(json) THEN json
        ELSE Ok([n |-> aligned,
                 header_bytes |-> json.val \o [i \in 1..(aligned - Len(json.val)) |-> 32],
                 offset |-> cur[Len(cur)],
                 tensors |-> sorted])

\* serialize: Ok(buffer), an error, or a panic
serialize(data, data_info, checks) ==
    LET p == prepare(data, data_info, checks)
    IN  IF ~IsOk(p) THEN p
        ELSE IF p.val.n > MAX_HEADER_SIZE THEN Err("HeaderTooLarge")
        ELSE Ok(LeBytes(p.val.n, N_LEN) \o p.val.header_bytes
                \o Concat([i \in 1..Len(p.val.tensors) |->
                              apply_x8d_algorithm(p.val.tensors[i].data)]))

(***************************************************************************)
(* Reader.                                                                 *)
(***************************************************************************)
\* a < b for data_offsets, compared as pairs
OffsetsLess(a, b) == a[1] < b[1] \/ (a[1] = b[1] /\ a[2] < b[2])

\* the orders tensors.sort_by(data_offsets) can leave the entries of a HashMap
\* in: ascending offsets, entries of equal offsets in any order (the order the
\* map iterated them)
RECURSIVE SortedOrders(_)
SortedOrders(tensors) ==
    LET names == DOMAIN tensors
        least == {n \in names :
                    \A o \in names : ~OffsetsLess(tensors[o].data_offsets,
                                                  tensors[n].data_offsets)}
    IN  IF names = {} THEN { <<>> }
        ELSE UNION { { << <<n, tensors[n]>> >> \o rest :
                          rest \in SortedOrders([o \in names \ {n} |-> tensors[o]]) } :
                     n \in least }

\* impl TryFrom<HashMetadata> for Metadata, for one order of the sort
TryFromHash(hashdata, order) == MetadataNew(hashdata.metadata, order)

\* read_metadata after the header is parsed, for one order of the sort:
\* Ok([n, metadata]), an error, or a panic
ReadParsed(buffer, n, hashdata, order, checks) ==
    LET metadata == TryFromHash(hashdata, order)
        buffer_end == validate(metadata.val)
        total == UncheckedAdd(UncheckedAdd(buffer_end.val, N_LEN, checks), n, checks)
    IN  IF ~IsOk(metadata) THEN metadata
        ELSE IF ~IsOk(buffer_end) THEN buffer_end
        ELSE IF total = Panic THEN Panicked
        ELSE IF total /= Len(buffer) THEN Err("MetadataIncompleteBuffer")
        ELSE Ok([n |-> n, metadata |-> metadata.val])

\* HeaderSize without the comparison to MAX_HEADER_SIZE
HeaderSizeNoLimit(buffer) ==
    IF Len(buffer) < N_LEN THEN Err("HeaderTooSmall")
    ELSE IF FromLeBytes(SubSeq(buffer, 1, N_LEN)) = Overflow THEN Err("HeaderTooLarge")
    ELSE Ok(FromLeBytes(SubSeq(buffer, 1, N_LEN)))

\* the start of read_metadata: the header length n read from the first N_LEN
\* bytes, Ok(n) or the error
HeaderSize(buffer) ==
    IF Len(buffer) < N_LEN THEN Err("HeaderTooSmall")
    ELSE IF FromLeBytes(SubSeq(buffer, 1, N_LEN)) = Overflow THEN Err("HeaderTooLarge")
    ELSE IF FromLeBytes(SubSeq(buffer, 1, N_LEN)) > MAX_HEADER_SIZE THEN Err("HeaderTooLarge")
    ELSE Ok(FromLeBytes(SubSeq(buffer, 1, N_LEN)))

\* read_metadata from the header length n on, up to the parse of the header
ReadHeader(buffer, n, checks) ==
    LET stop == checked_add(n, N_LEN)
        header_bytes == Slice0(buffer, N_LEN, stop)
        parsed == ParseHeader(header_bytes)
    IN  IF stop = Overflow THEN { Err("InvalidHeaderLength") }
        ELSE IF stop > Len(buffer) THEN { Err("InvalidHeaderLength") }
        ELSE IF ~Utf8Valid(header_bytes) THEN { Err("InvalidHeader") }
        ELSE IF ~parsed.ok THEN { Err("InvalidHeaderDeserialization") }
        ELSE { ReadParsed(buffer, n, parsed.val, order, checks) :
                 order \in SortedOrders(parsed.val.tensors) }

\* X8DsubByteTensors::read_metadata: the set of its possible results (one per
\* order the HashMap can iterate in)
read_metadata(buffer, checks) ==
    IF IsOk(HeaderSize(buffer))
    THEN ReadHeader(buffer, HeaderSize(buffer).val, checks)
    ELSE { HeaderSize(buffer) }

\* X8DsubByteTensors::deserialize: the reader [metadata, data] for each result
\* of read_metadata
deserialize(buffer, checks) ==
    { IF IsOk(r)
      THEN Ok([metadata |-> r.val.metadata,
               data |-> Slice0(buffer, N_LEN + r.val.n, Len(buffer))])
      ELSE r : r \in read_metadata(buffer, checks) }

\* the view built by tensor(), tensors() and iter() for one TensorInfo
ViewOf(reader, info) ==
    [dtype |-> info.dtype, shape |-> info.shape,
     data |-> reverse_x8d_algorithm(
                 Slice0(reader.data, info.data_offsets[1], info.data_offsets[2]))]

\* X8DsubByteTensors::tensor
tensor(reader, tensor_name) ==
    IF tensor_name \notin DOMAIN reader.metadata.index_map
    THEN ErrName("TensorNotFound", tensor_name)
    ELSE LET index == reader.metadata.index_map[tensor_name]
         IN  IF index >= Len(reader.metadata.tensors)
             THEN ErrName("TensorNotFound", tensor_name)
             ELSE Ok(ViewOf(reader, reader.metadata.tensors[index + 1]))

\* X8DsubByteTensors::tensors and X8DsubByteTensors::iter: the (name, view)
\* pairs, as a set (the order is the HashMap's)
tensors(reader) ==
    { <<n, ViewOf(reader, reader.metadata.tensors[reader.metadata.index_map[n] + 1])>> :
        n \in DOMAIN reader.metadata.index_map }

iter(reader) ==
    { <<n, ViewOf(reader, reader.metadata.tensors[reader.metadata.index_map[n] + 1])>> :
        n \in DOMAIN reader.metadata.index_map }

\* X8DsubByteTensors::names
names(reader) == DOMAIN reader.metadata.index_map

(***************************************************************************)
(* Slice iterator (slice.rs).  A TensorIndexer is the sequence of its       *)
(* IndexOps; an IndexOp is Single(idx) or Slice(range) with the range given *)
(* by its two bounds.                                                       *)
(***************************************************************************)
Included(n) == <<"Included", n>>
Excluded(n) == <<"Excluded", n>>
Unbounded == <<"Unbounded">>

Single(idx) == [op |-> "Single", idx |-> idx]
SliceOp(lo, hi) == [op |-> "Slice", lo |-> lo, hi |-> hi]

\* the ranges of core::ops as IndexOps
RangeFull == SliceOp(Unbounded, Unbounded)
RangeOp(a, b) == SliceOp(Included(a), Excluded(b))
RangeInclusive(a, b) == SliceOp(Included(a), Included(b))
RangeFrom(a) == SliceOp(Included(a), Unbounded)
RangeTo(b) == SliceOp(Unbounded, Excluded(b))

SliceOutOfRange(i, asked, dim_size) ==
    [tag |-> "Err", err |-> "SliceOutOfRange",
     dim_index |-> i, asked |-> asked, dim_size |-> dim_size]

\* range_bounds.start_bound() resolved
StartOf(b, checks) ==
    IF b[1] = "Included" THEN b[2]
    ELSE IF b[1] = "Excluded" THEN UncheckedAdd(b[2], 1, checks)
    ELSE 0

\* range_bounds.end_bound() resolved
EndOf(b, dim_size, checks) ==
    IF b[1] = "Included" THEN UncheckedAdd(b[2], 1, checks)
    ELSE IF b[1] = "Excluded" THEN b[2]
    ELSE dim_size

\* a range check that leaves out the comparison of the end with dim_size
ApplyOpNoEndCheck(op, i, dim_size, checks) ==
    IF op.op = "Single"
    THEN (IF op.idx >= dim_size THEN SliceOutOfRange(i, op.idx, dim_size)
          ELSE Ok(<<op.idx, op.idx + 1>>))
    ELSE Bind(StartOf(op.lo, checks), LAMBDA start :
         Bind(EndOf(op.hi, dim_size, checks), LAMBDA end :
            IF start = Panic \/ end = Panic THEN Panicked
            ELSE IF start >= dim_size \/ start > end
                 THEN SliceOutOfRange(i, IF start >= dim_size THEN start ELSE end, dim_size)
            ELSE Ok(<<start, end>>)))

\* one arm of the match on an IndexOp of dimension i: Ok(<<start, end>>), the
\* error, or a panic
ApplyOp(op, i, dim_size, checks) ==
    IF op.op = "Single"
    THEN (IF op.idx >= dim_size THEN SliceOutOfRange(i, op.idx, dim_size)
          ELSE Ok(<<op.idx, op.idx + 1>>))
    ELSE Bind(StartOf(op.lo, checks), LAMBDA start :
         Bind(EndOf(op.hi, dim_size, checks), LAMBDA end :
            IF start = Panic \/ end = Panic THEN Panicked
            ELSE IF start >= dim_size \/ end > dim_size \/ start > end
                 THEN SliceOutOfRange(i, IF start >= dim_size THEN start ELSE end, dim_size)
            ELSE Ok(<<start, end>>)))

\* the loop over the IndexOps of one indexer, from op k on: the last range
\* wins, the first failure returns
RECURSIVE ApplyOps(_, _, _, _, _, _)
ApplyOps(ops, k, i, dim_size, range, checks) ==
    IF k > Len(ops) THEN Ok(range)
    ELSE Bind(ApplyOp(ops[k], i, dim_size, checks), LAMBDA r :
            IF IsOk(r) THEN ApplyOps(ops, k + 1, i, dim_size, r.val, checks) ELSE r)

\* the loop over the dimensions from dimension i (0-based) on: Ok(the ranges
\* of the dimensions), the first error, or a panic
RECURSIVE ResolveDims(_, _, _, _, _)
ResolveDims(shape, slices, i, acc, checks) ==
    IF i >= Len(shape) THEN Ok(acc)
    ELSE Bind(IF i < Len(slices)
              THEN ApplyOps(slices[i + 1], 1, i, shape[i + 1], <<0, shape[i + 1]>>, checks)
              ELSE Ok(<<0, shape[i + 1]>>), LAMBDA r :
            IF IsOk(r) THEN ResolveDims(shape, slices, i + 1, Append(acc, r.val), checks)
            ELSE r)

\* the stride loop: strides[i] is the product of the later dimensions; the
\* loop also multiplies by the first dimension, so the whole product is
\* computed.  A sequence of Len(shape) + 1 products, the first one unused.
RECURSIVE StrideProducts(_, _)
StrideProducts(shape, checks) ==
    IF shape = <<>> THEN <<1>>
    ELSE Bind(StrideProducts(Tail(shape), checks), LAMBDA rest :
            <<UncheckedMul(rest[1], Head(shape), checks)>> \o rest)

\* a limit that also refuses as many specs as the tensor has dimensions
TooManySlicesOffByOne(slices, shape) == Len(slices) >= Len(shape)

\* slices.len() > shape.len()
TooManySlices(slices, shape) == Len(slices) > Len(shape)

\* SliceIterator::new
SliceIteratorNew(t, slices, checks) ==
    IF TooManySlices(slices, t.shape) THEN Err("TooManySlices")
    ELSE Bind(ResolveDims(t.shape, slices, 0, <<>>, checks), LAMBDA ranges :
         Bind(StrideProducts(t.shape, checks), LAMBDA prods :
            IF ~IsOk(ranges) THEN ranges
            ELSE IF prods[1] = Panic THEN Panicked
            ELSE Bind(UncheckedProduct([i \in 1..Len(ranges.val) |->
                                           ranges.val[i][2] - ranges.val[i][1]], checks),
                      LAMBDA n_elements :
                IF n_elements = Panic THEN Panicked
                ELSE Ok([tensor |-> t,
                         shape |-> t.shape,
                         strides |-> Tail(prods),
                         current |-> [i \in 1..Len(t.shape) |-> 0],
                         index |-> 0,
                         n_elements |-> n_elements,
                         element_size |-> size(t.dtype)]))))

\* TensorView::sliced_data
sliced_data(t, slices, checks) == SliceIteratorNew(t, slices, checks)

\* linear_index after the dimensions up to k
RECURSIVE LinearIndex(_, _, _)
LinearIndex(self, k, checks) ==
    IF k = 0 THEN 0
    ELSE UncheckedAdd(LinearIndex(self, k - 1, checks),
                      UncheckedMul(self.shape[k] - (self.shape[k] - self.current[k]),
                                   self.strides[k], checks),
                      checks)

\* the update of current from dimension k down: add the carry, wrap at the
\* dimension's size
RECURSIVE Carry(_, _, _)
Carry(current, shape, k) ==
    IF k = 0 THEN current
    ELSE IF current[k] + 1 >= shape[k] - (shape[k] - shape[k])
         THEN Carry([current EXCEPT ![k] = 0], shape, k - 1)
    ELSE [current EXCEPT ![k] = current[k] + 1]

None == [some |-> FALSE]
Some(start, end, bytes) == [some |-> TRUE, start |-> start, end |-> end, data |-> bytes]

\* a next() that stops one call late: index > n_elements
IterNextOffByOne(self, checks) ==
    IF self.index > self.n_elements THEN [self |-> self, item |-> None]
    ELSE Bind(LinearIndex(self, Len(self.current), checks), LAMBDA linear_index :
         Bind(UncheckedMul(linear_index, size(self.tensor.dtype), checks), LAMBDA start :
         Bind(UncheckedAdd(start, size(self.tensor.dtype), checks), LAMBDA end :
            IF end = Panic THEN Panicked
            ELSE [self |-> [self EXCEPT !.current = Carry(self.current, self.shape,
                                                          Len(self.current)),
                                        !.index = self.index + 1],
                  item |-> IF start < Len(self.tensor.data) /\ end <= Len(self.tensor.data)
                           THEN Some(start, end, Slice0(self.tensor.data, start, end))
                           ELSE None])))

\* SliceIterator::next: [self, item] with the iterator after the call and the
\* item returned, or a panic
IterNext(self, checks) ==
    IF self.index >= self.n_elements THEN [self |-> self, item |-> None]
    ELSE Bind(LinearIndex(self, Len(self.current), checks), LAMBDA linear_index :
         Bind(UncheckedMul(linear_index, size(self.tensor.dtype), checks), LAMBDA start :
         Bind(UncheckedAdd(start, size(self.tensor.dtype), checks), LAMBDA end :
            IF end = Panic THEN Panicked
            ELSE [self |-> [self EXCEPT !.current = Carry(self.current, self.shape,
                                                          Len(self.current)),
                                        !.index = self.index + 1],
                  item |-> IF start < Len(self.tensor.data) /\ end <= Len(self.tensor.data)
                           THEN Some(start, end, Slice0(self.tensor.data, start, end))
                           ELSE None])))

(***************************************************************************)
(* Inputs of the model.                                                    *)
(***************************************************************************)
\* tensor names: "a", "b\"" (a name that needs an escape) and the reserved
\* key "__metadata__"
NameA == <<97>>
NameBQ == <<98, 34>>
Names == {NameA, NameBQ, MetadataKey}
\* a name no input uses: "z"
AbsentName == <<122>>

\* first bytes of the payload patterns: every pattern runs through further
\* byte values
Seeds == {0, 7, 255}

\* len bytes starting at seed, in steps of 31 modulo 256
Fill(len, seed) == [i \in 1..len |-> (seed + 31 * (i - 1)) % 256]

\* (dtype, shape, number of data bytes) of the tensor sources: byte-aligned
\* tensors of several alignment classes, an empty tensor, a 4-bit tensor of
\* even and of odd element count, and a tensor one byte short
SourceKinds ==
    { <<"I32", <<1>>, 4>>, <<"U8", <<2>>, 2>>, <<"BOOL", <<1, 1>>, 1>>,
      <<"F4", <<2>>, 1>>, <<"U8", <<0>>, 0>>, <<"F4", <<1>>, 1>>, <<"U8", <<2>>, 1>> }

\* sequences over S of length at most n
RECURSIVE SeqsUpTo(_, _)
SeqsUpTo(S, n) ==
    IF n = 0 THEN { <<>> }
    ELSE LET shorter == SeqsUpTo(S, n - 1)
         IN  shorter \cup { Append(s, x) : s \in shorter, x \in S }

\* the (name, tensor) collections handed to serialize
SourcesFor(seed) ==
    { Source(n, k[1], k[2], Fill(k[3], seed)) : n \in Names, k \in SourceKinds }

DataInfos == { NoInfo, SomeInfo(<< << <<107>>, <<118>> >> >>) }

(***************************************************************************)
(* State.                                                                  *)
(***************************************************************************)
VARIABLES
    overflow_checks,  \* whether the build checks unchecked arithmetic (panics)
    input,            \* the (name, tensor) pairs handed to serialize, in order
    data_info,        \* the free-form metadata handed to serialize
    wres,             \* the result of serialize
    buffer,           \* the byte buffer handed to the reader
    origin,           \* where buffer comes from: "none", "serialize", "producer"
    mres,             \* the result of read_metadata
    rres,             \* the result of deserialize: the reader
    got,              \* the last call on the reader or a constructor, and its result
    view,             \* the result of TensorView::new
    it,               \* the result of sliced_data: the SliceIterator
    items             \* what the calls of next() on it returned, in order

vars == <<overflow_checks, input, data_info, wres, buffer, origin, mres, rres, got,
          view, it, items>>

NoCall == [op |-> "none"]

(***************************************************************************)
(* Write then read: serialize, deserialize, and the reader's accessors.    *)
(***************************************************************************)
Init ==
    /\ overflow_checks \in BOOLEAN
    /\ \E seed \in Seeds : input \in SeqsUpTo(SourcesFor(seed), MaxTensors)
    /\ data_info \in DataInfos
    /\ wres = NoResult
    /\ buffer = <<>>
    /\ origin = "none"
    /\ mres = NoResult
    /\ rres = NoResult
    /\ got = NoCall
    /\ view = NoResult
    /\ it = NoResult
    /\ items = <<>>

\* serialize(data, data_info)
Serialize ==
    /\ wres = NoResult
    /\ origin = "none"
    /\ wres' = serialize(input, data_info, overflow_checks)
    /\ IF IsOk(wres')
       THEN buffer' = wres'.val /\ origin' = "serialize"
       ELSE UNCHANGED <<buffer, origin>>
    /\ UNCHANGED <<view, it, items, overflow_checks, input, data_info, mres, rres, got>>

\* X8DsubByteTensors::read_metadata(buffer)
ReadMetadata ==
    /\ origin /= "none"
    /\ mres = NoResult
    /\ mres' \in read_metadata(buffer, overflow_checks)
    /\ UNCHANGED <<view, it, items, overflow_checks, input, data_info, wres, buffer, origin, rres, got>>

\* X8DsubByteTensors::deserialize(buffer)
Deserialize ==
    /\ origin /= "none"
    /\ rres = NoResult
    /\ rres' \in deserialize(buffer, overflow_checks)
    /\ UNCHANGED <<view, it, items, overflow_checks, input, data_info, wres, buffer, origin, mres, got>>

\* reader.tensor(name)
Tensor ==
    /\ IsOk(rres)
    /\ \E n \in Names \cup {AbsentName} :
          got' = [op |-> "tensor", name |-> n, res |-> tensor(rres.val, n)]
    /\ UNCHANGED <<view, it, items, overflow_checks, input, data_info, wres, buffer, origin, mres, rres>>

\* reader.tensors()
Tensors ==
    /\ IsOk(rres)
    /\ got' = [op |-> "tensors", res |-> tensors(rres.val)]
    /\ UNCHANGED <<view, it, items, overflow_checks, input, data_info, wres, buffer, origin, mres, rres>>

\* reader.iter(), collected
Iter ==
    /\ IsOk(rres)
    /\ got' = [op |-> "iter", res |-> iter(rres.val)]
    /\ UNCHANGED <<view, it, items, overflow_checks, input, data_info, wres, buffer, origin, mres, rres>>

Next == Serialize \/ ReadMetadata \/ Deserialize \/ Tensor \/ Tensors \/ Iter

Spec == Init /\ [][Next]_vars

(***************************************************************************)
(* Reading a buffer that some other producer wrote: any bytes can be       *)
(* handed to read_metadata and deserialize.                                *)
(***************************************************************************)
\* the entries such a producer lists in its header: contiguous ones, one that
\* leaves a gap, and empty tensors that share their offsets
EntryPool ==
    { <<NameA, TensorInfo("U8", <<2>>, 0, 2)>>,
      <<NameBQ, TensorInfo("I32", <<1>>, 2, 6)>>,
      <<NameBQ, TensorInfo("F4", <<2>>, 2, 3)>>,
      <<NameA, TensorInfo("U8", <<2>>, 1, 3)>>,
      <<NameA, TensorInfo("U8", <<0>>, 0, 0)>>,
      <<NameBQ, TensorInfo("U8", <<0>>, 0, 0)>> }

\* the largest end offset the entries name
RECURSIVE LastEnd(_)
LastEnd(pairs) ==
    IF pairs = <<>> THEN 0
    ELSE LET r == LastEnd(Tail(pairs))
         IN  IF Head(pairs)[2].data_offsets[2] > r THEN Head(pairs)[2].data_offsets[2] ELSE r

\* the header text padded with spaces to a multiple of N_LEN
PaddedHeader(json) == json \o [i \in 1..(NextMultipleOf(Len(json), N_LEN) - Len(json)) |-> 32]

\* a file: the length prefix, the header and the payload
FileOf(header, payload) == LeBytes(Len(header), N_LEN) \o header \o payload

\* files whose header lists the entries in the order given and whose payload
\* is exactly covered, one byte short, or one byte long
FilesOf(pairs) ==
    { FileOf(PaddedHeader(JsonHeader(NoInfo, pairs)), Fill(len, seed)) :
        len \in { n \in {LastEnd(pairs) - 1, LastEnd(pairs), LastEnd(pairs) + 1} : n >= 0 },
        seed \in {0, 7} }

EntryFiles == UNION { FilesOf(pairs) : pairs \in SeqsUpTo(EntryPool, MaxEntries) }

\* the largest element count of a one-byte dtype whose bit count fits the word
HugeDim == 2 ^ (UsizeBits - 3) - 1

\* eight contiguous tensors "a".."h" of HugeDim bytes each: every entry
\* validates, and their total length is UsizeMax - 7
HugeEntries ==
    [i \in 1..8 |-> << <<96 + i>>, TensorInfo("U8", <<HugeDim>>, (i - 1) * HugeDim, i * HugeDim) >>]

\* length prefixes: 100,000,000, 100,000,001, 2^32, 2^56 and 2^64 - 1
Prefixes ==
    { <<0, 225, 245, 5, 0, 0, 0, 0>>, <<1, 225, 245, 5, 0, 0, 0, 0>>,
      <<0, 0, 0, 0, 1, 0, 0, 0>>, <<0, 0, 0, 0, 0, 0, 0, 1>>,
      <<255, 255, 255, 255, 255, 255, 255, 255>> }

\* a well-formed file of one tensor
SampleFile ==
    FileOf(PaddedHeader(JsonHeader(NoInfo, << <<NameA, TensorInfo("U8", <<2>>, 0, 2)>> >>)),
           Fill(2, 7))

\* the buffers handed to the reader
ProducerBuffers ==
    EntryFiles
    \cup { SubSeq(SampleFile, 1, k) : k \in 0..(N_LEN + 1) }
    \cup { pre \o rest : pre \in Prefixes,
                         rest \in { <<>>, <<123, 125>>,
                                    SubSeq(SampleFile, N_LEN + 1, Len(SampleFile)) } }
    \cup { FileOf(PaddedHeader(JsonHeader(NoInfo, HugeEntries)), Fill(len, 7)) : len \in {0, 1} }
    \cup { FileOf(<<123, 125, 255, 32, 32, 32, 32, 32>>, <<>>),
           FileOf(<<91, 93, 32, 32, 32, 32, 32, 32>>, <<>>) }

InitRead ==
    /\ overflow_checks \in BOOLEAN
    /\ input = <<>>
    /\ data_info = NoInfo
    /\ wres = NoResult
    /\ buffer \in ProducerBuffers
    /\ origin = "producer"
    /\ mres = NoResult
    /\ rres = NoResult
    /\ got = NoCall
    /\ view = NoResult
    /\ it = NoResult
    /\ items = <<>>

NextRead == ReadMetadata \/ Deserialize \/ Tensor \/ Tensors \/ Iter

SpecRead == InitRead /\ [][NextRead]_vars

(***************************************************************************)
(* Constructors: Metadata::new on any ordered list of entries, and          *)
(* TensorView::new on any dtype, shape and data.                            *)
(***************************************************************************)
\* an element count whose bit count for a 4-bit dtype overflows the word, odd
OddHugeDim == 2 ^ (UsizeBits - 2) + 1
\* a dimension that doubled overflows the word
HalfWord == 2 ^ (UsizeBits - 1)

\* (dtype, shape, start, end) of the entries handed to Metadata::new: entries
\* that follow each other, a gap, an end below the start, sizes one byte
\* short and one byte long, odd counts of a 4-bit dtype, an aligned 6-bit
\* tensor, an empty tensor, and counts that overflow
MetaInfos ==
    { TensorInfo("U8", <<2>>, 0, 2), TensorInfo("I16", <<1, 2>>, 2, 6),
      TensorInfo("U8", <<2>>, 1, 3), TensorInfo("U8", <<2>>, 2, 1),
      TensorInfo("U8", <<2>>, 0, 1), TensorInfo("U8", <<2>>, 0, 3),
      TensorInfo("I16", <<1, 2>>, 2, 5),
      TensorInfo("F4", <<1>>, 0, 1), TensorInfo("F4", <<3>>, 2, 4),
      TensorInfo("F6_E2M3", <<4>>, 2, 5), TensorInfo("U8", <<0>>, 0, 0),
      TensorInfo("F4", <<OddHugeDim>>, 0, 0), TensorInfo("U8", <<HalfWord, 2>>, 2, 2) }

MetaEntries == { <<n, info>> : n \in {NameA, NameBQ}, info \in MetaInfos }

\* (dtype, shape, data) handed to TensorView::new
ViewInputs ==
    { <<"U8", <<2, 3, 4>>, Fill(24, 7)>>, <<"U8", <<2, 3, 4>>, [i \in 1..24 |-> 0]>>,
      <<"I16", <<2, 2>>, Fill(8, 7)>>,
      <<"F4", <<2, 2>>, Fill(2, 7)>>, <<"F4", <<1>>, Fill(1, 7)>>,
      <<"F4", <<3>>, Fill(2, 7)>>, <<"F6_E2M3", <<4>>, Fill(3, 7)>>,
      <<"U8", <<2, 0>>, <<>>>>, <<"U8", <<>>, Fill(1, 7)>>, <<"U8", <<2>>, Fill(1, 7)>>,
      <<"F4", <<OddHugeDim>>, <<>>>>, <<"U8", <<HalfWord, 2>>, <<>>>>,
      <<"U8", <<0, HalfWord, 4>>, <<>>>> }

\* the indexers of one dimension
Indexers ==
    { <<Single(0)>>, <<Single(1)>>, <<Single(5)>>, <<RangeFull>>, <<RangeOp(1, 3)>>,
      <<RangeInclusive(0, 1)>>, <<RangeFrom(1)>>, <<RangeTo(1)>>, <<>>,
      <<RangeOp(0, 2), Single(1)>>, <<RangeInclusive(0, UsizeMax)>> }

\* number of per-dimension indexers handed to sliced_data
MaxSlices == 3
\* number of calls of next() the model follows
MaxCalls == 13

InitNew ==
    /\ overflow_checks \in BOOLEAN
    /\ input = <<>>
    /\ data_info = NoInfo
    /\ wres = NoResult
    /\ buffer = <<>>
    /\ origin = "none"
    /\ mres = NoResult
    /\ rres = NoResult
    /\ got = NoCall
    /\ view = NoResult
    /\ it = NoResult
    /\ items = <<>>

\* Metadata::new(None, pairs)
NewMetadata ==
    /\ got = NoCall
    /\ \E pairs \in SeqsUpTo(MetaEntries, MaxEntries) :
          got' = [op |-> "Metadata::new", pairs |-> pairs, res |-> MetadataNew(NoInfo, pairs)]
    /\ UNCHANGED <<view, it, items, overflow_checks, input, data_info, wres, buffer, origin,
                   mres, rres>>

\* TensorView::new(dtype, shape, data)
NewView ==
    /\ got = NoCall
    /\ \E a \in ViewInputs :
          /\ got' = [op |-> "TensorView::new", dtype |-> a[1], shape |-> a[2], data |-> a[3]]
          /\ view' = TensorViewNew(a[1], a[2], a[3], overflow_checks)
    /\ UNCHANGED <<it, items, overflow_checks, input, data_info, wres, buffer, origin,
                   mres, rres>>

NextMeta == NewMetadata \/ NewView

SpecMeta == InitNew /\ [][NextMeta]_vars

(***************************************************************************)
(* Dtype catalogue: the derived order of two variants.                     *)
(***************************************************************************)
\* a < b for two variants of Dtype
CompareDtypes ==
    /\ got = NoCall
    /\ \E a \in Dtype, b \in Dtype :
          got' = [op |-> "Dtype::lt", a |-> a, b |-> b, res |-> DtypeOrd(a) < DtypeOrd(b)]
    /\ UNCHANGED <<view, it, items, overflow_checks, input, data_info, wres, buffer, origin,
                   mres, rres>>

NextDtype == CompareDtypes

SpecDtype == InitNew /\ [][NextDtype]_vars

(***************************************************************************)
(* Slicing: a view, an iterator over a slice of it, and calls of next().   *)
(***************************************************************************)
\* view.sliced_data(slices)
SlicedData ==
    /\ IsOk(view)
    /\ it = NoResult
    /\ \E slices \in SeqsUpTo(Indexers, MaxSlices) :
          /\ got' = [op |-> "sliced_data", slices |-> slices]
          /\ it' = sliced_data(view.val, slices, overflow_checks)
    /\ UNCHANGED <<view, items, overflow_checks, input, data_info, wres, buffer, origin,
                   mres, rres>>

\* it.next()
CallNext ==
    /\ IsOk(it)
    /\ Len(items) < MaxCalls
    /\ LET r == IterNext(it.val, overflow_checks)
       IN  IF r = Panicked
           THEN it' = Panicked /\ UNCHANGED items
           ELSE it' = Ok(r.self) /\ items' = Append(items, r.item)
    /\ UNCHANGED <<view, got, overflow_checks, input, data_info, wres, buffer, origin,
                   mres, rres>>

NextSlice == NewView \/ SlicedData \/ CallNext

SpecSlice == InitNew /\ [][NextSlice]_vars

(***************************************************************************)
(* Slicing, late in the sequence: an iterator over a one-dimensional view   *)
(* of a 64-bit dtype after many calls of next(), in a build without         *)
(* overflow checks.                                                         *)
(***************************************************************************)
\* an element count whose bit count for a 64-bit dtype wraps to 64
WrapDim == 2 ^ (UsizeBits - 3) + 1

\* the iterator j calls of next() after its construction over a view of one
\* dimension, for j below the dimension and below n_elements: each call adds
\* one to index and one to the only counter, which does not reach the
\* dimension
AfterCalls(self, j) == [self EXCEPT !.index = j, !.current = <<j>>]

\* the view of WrapDim 64-bit elements over 8 bytes, which TensorView::new
\* accepts, and its iterator right after sliced_data(&[]) or within MaxCalls
\* calls of the element whose byte offset wraps; items holds what the calls
\* from then on return
InitLate ==
    /\ overflow_checks = FALSE
    /\ input = <<>>
    /\ data_info = NoInfo
    /\ wres = NoResult
    /\ buffer = <<>>
    /\ origin = "none"
    /\ mres = NoResult
    /\ rres = NoResult
    /\ got = [op |-> "sliced_data", slices |-> <<>>]
    /\ view = TensorViewNew("I64", <<WrapDim>>, Fill(8, 7), FALSE)
    /\ \E j \in {0} \cup ((WrapDim - 1 - MaxCalls)..(WrapDim - 1)) :
          it = Ok(AfterCalls(sliced_data(view.val, <<>>, FALSE).val, j))
    /\ items = <<>>

NextLate == CallNext

SpecLate == InitLate /\ [][NextLate]_vars

(***************************************************************************)
(* Claims on the write-then-read round trip, checked under Spec.           *)
(***************************************************************************)
\* no two pairs of the collection carry the same name
UniqueNames(data) ==
    \A i, j \in 1..Len(data) : data[i].name = data[j].name => i = j

\* data_len is product(shape) * bitwidth / 8 and the bit count is a multiple of 8
ConsistentSource(src) ==
    /\ MathProduct(src.shape) <= UsizeMax \div 64
    /\ (MathProduct(src.shape) * bitsize(src.dtype)) % 8 = 0
    /\ src.data_len = (MathProduct(src.shape) * bitsize(src.dtype)) \div 8

\* C1: round trip of content.  For uniquely named tensors, after
\* deserialize(serialize(tensors)), tensor(name) succeeds for every name of the
\* input and returns exactly the bytes the tensor source supplied to serialize.
C1_RoundTripContent ==
    ( /\ origin = "serialize"
      /\ UniqueNames(input)
      /\ IsOk(rres)
      /\ got.op = "tensor"
      /\ \E i \in 1..Len(input) : input[i].name = got.name )
    => /\ IsOk(got.res)
       /\ \A i \in 1..Len(input) :
             input[i].name = got.name => got.res.val.data = input[i].data

\* C2: round trip of the descriptors.  For uniquely named tensors whose
\* data_len is product(shape) * bitwidth / 8 with a bit count divisible by 8,
\* deserialize accepts the buffer serialize returned, and the reader has
\* exactly the input's names, each with the input's dtype and shape.
C2_RoundTripDescriptors ==
    ( /\ origin = "serialize"
      /\ UniqueNames(input)
      /\ \A i \in 1..Len(input) : ConsistentSource(input[i])
      /\ rres /= NoResult )
    => /\ IsOk(rres)
       /\ names(rres.val) = { input[i].name : i \in 1..Len(input) }
       /\ \A i \in 1..Len(input) :
             /\ IsOk(tensor(rres.val, input[i].name))
             /\ tensor(rres.val, input[i].name).val.dtype = input[i].dtype
             /\ tensor(rres.val, input[i].name).val.shape = input[i].shape

\* C4: write envelope.  A buffer returned by serialize is the 8-byte
\* little-endian header length N, then N header bytes, then the raw bytes of
\* the tensors, unmodified, concatenated in the planner's sorted order.
C4_WriteEnvelope ==
    IsOk(wres) =>
        /\ Len(wres.val) >= N_LEN
        /\ IsOk(HeaderSize(wres.val))
        /\ N_LEN + HeaderSize(wres.val).val <= Len(wres.val)
        /\ Slice0(wres.val, N_LEN + HeaderSize(wres.val).val, Len(wres.val))
              = Concat([i \in 1..Len(input) |-> PlannerSort(input)[i].data])

\* the N header bytes of a buffer that starts with a length prefix in range
HeaderBytes(b) == Slice0(b, N_LEN, N_LEN + HeaderSize(b).val)

\* the bytes the tensor sources of the collection report, in total
RECURSIVE TotalDataLen(_)
TotalDataLen(data) ==
    IF data = <<>> THEN 0 ELSE Head(data).data_len + TotalDataLen(Tail(data))

\* h is a text that ends with the closing brace of a JSON object, followed by
\* fewer than 8 bytes, every one of them an ASCII space
BraceThenSpaces(h) ==
    \E k \in 0..(N_LEN - 1) :
        /\ k < Len(h)
        /\ h[Len(h) - k] = 125
        /\ \A j \in (Len(h) - k + 1)..Len(h) : h[j] = 32

\* C11: header alignment.  In every buffer returned by serialize, the header
\* length N stored in the first 8 bytes is a multiple of 8, it is the number
\* of header bytes written (the buffer is 8 + N bytes and the payload), and
\* the bytes after the JSON text up to that length are ASCII spaces.
C11_HeaderAlignment ==
    IsOk(wres) =>
        /\ IsOk(HeaderSize(wres.val))
        /\ HeaderSize(wres.val).val % 8 = 0
        /\ Len(wres.val) = N_LEN + HeaderSize(wres.val).val + TotalDataLen(input)
        /\ BraceThenSpaces(HeaderBytes(wres.val))

\* serialize has returned a buffer for two tensors whose header ends with
\* padding
C11_Witness ==
    /\ IsOk(wres)
    /\ Len(input) = 2
    /\ wres.val[N_LEN + HeaderSize(wres.val).val] = 32

\* the data_offsets the header of a written buffer gives the tensor named n
WrittenOffsets(b, n) == ParseHeader(HeaderBytes(b)).val.tensors[n].data_offsets

\* the header of a written buffer parses and lists every name of the input
HeaderListsInput(b) ==
    /\ ParseHeader(HeaderBytes(b)).ok
    /\ \A i \in 1..Len(input) :
          input[i].name \in DOMAIN ParseHeader(HeaderBytes(b)).val.tensors

\* x is laid out before y by the rule of the alignment classes: the wider
\* bit width first, and within one bit width the smaller name first
ClassBefore(x, y) ==
    \/ bitsize(x.dtype) > bitsize(y.dtype)
    \/ /\ bitsize(x.dtype) = bitsize(y.dtype)
       /\ StrLess(x.name, y.name)

\* C12: planner order.  For any two tensors x and y of a uniquely named
\* input, x receives the lower offset range if its dtype has the greater bit
\* width, or the same bit width and the smaller name.
C12_PlannerOrder ==
    ( /\ IsOk(wres)
      /\ UniqueNames(input)
      /\ HeaderListsInput(wres.val) )
    => \A i, j \in 1..Len(input) :
          ClassBefore(input[i], input[j])
             => WrittenOffsets(wres.val, input[i].name)[2]
                   <= WrittenOffsets(wres.val, input[j].name)[1]

\* the orders in which the pairs of a collection can be supplied
SupplyOrders(data) ==
    { [i \in 1..Len(data) |-> data[p[i]]] :
        p \in { f \in [1..Len(data) -> 1..Len(data)] :
                  \A i, j \in 1..Len(data) : f[i] = f[j] => i = j } }

\* C13: planner determinism.  For uniquely named tensors, serialize returns
\* the same result, byte for byte, for every order in which the same pairs are
\* supplied.
C13_PlannerDeterminism ==
    ( /\ wres /= NoResult
      /\ UniqueNames(input) )
    => \A p \in SupplyOrders(input) : serialize(p, data_info, overflow_checks) = wres

\* serialize has returned a buffer for two tensors of one dtype that were
\* supplied in the order opposite to the planner's
C13_Witness ==
    /\ IsOk(wres)
    /\ Len(input) = 2
    /\ UniqueNames(input)
    /\ input[1].dtype = input[2].dtype
    /\ PlannerSort(input) /= input

(***************************************************************************)
(* Claims on the reader, checked under SpecRead.                           *)
(***************************************************************************)
\* the TensorInfo the reader holds for a name
InfoOf(reader, n) == reader.metadata.tensors[reader.metadata.index_map[n] + 1]

\* buffer[8 + N + start .. 8 + N + end] for the entry of name n
BufferBytesOf(reader, n) ==
    Slice0(buffer,
           N_LEN + HeaderSize(buffer).val + InfoOf(reader, n).data_offsets[1],
           N_LEN + HeaderSize(buffer).val + InfoOf(reader, n).data_offsets[2])

\* C3: zero-copy read.  For a reader obtained from deserialize(buffer) with
\* header length N, the bytes of every view returned by tensor(name),
\* tensors() and iter() are exactly buffer[8+N+start .. 8+N+end] for the
\* data_offsets (start, end) of that name.
C3_ZeroCopyRead ==
    IsOk(rres) =>
        /\ (got.op = "tensor" /\ IsOk(got.res))
              => got.res.val.data = BufferBytesOf(rres.val, got.name)
        /\ got.op \in {"tensors", "iter"}
              => \A p \in got.res : p[2].data = BufferBytesOf(rres.val, p[1])

\* the header of the buffer parses: the length prefix is in range, the header
\* bytes are inside the buffer, are UTF-8 and are a header object
HeaderParses(b) ==
    /\ IsOk(HeaderSize(b))
    /\ N_LEN + HeaderSize(b).val <= Len(b)
    /\ Utf8Valid(Slice0(b, N_LEN, N_LEN + HeaderSize(b).val))
    /\ ParseHeader(Slice0(b, N_LEN, N_LEN + HeaderSize(b).val)).ok

\* the results of Metadata::new (which validates) on the parsed header of the
\* buffer
Validations(b) ==
    { TryFromHash(ParseHeader(Slice0(b, N_LEN, N_LEN + HeaderSize(b).val)).val, order) :
        order \in SortedOrders(
                    ParseHeader(Slice0(b, N_LEN, N_LEN + HeaderSize(b).val)).val.tensors) }

\* C9: exact coverage.  On a buffer whose header parses and validates with
\* total payload length L, read_metadata fails with MetadataIncompleteBuffer
\* when 8 + N + L differs from the buffer length, and succeeds when it is equal.
C9_ExactCoverage ==
    ( /\ mres /= NoResult
      /\ HeaderParses(buffer)
      /\ \A v \in Validations(buffer) : IsOk(v) )
    => \A v \in Validations(buffer) :
          IF N_LEN + HeaderSize(buffer).val + validate(v.val).val /= Len(buffer)
          THEN mres = Err("MetadataIncompleteBuffer")
          ELSE IsOk(mres)

\* the 8 little-endian bytes arr decode to a value above limit: they differ
\* from the bytes of limit, and the most significant byte that differs is larger
DecodesAbove(arr, limit) ==
    \E i \in 1..N_LEN :
        /\ arr[i] > LeBytes(limit, N_LEN)[i]
        /\ \A j \in (i + 1)..N_LEN : arr[j] = LeBytes(limit, N_LEN)[j]

\* C10: header size limits on read.  read_metadata returns HeaderTooSmall for
\* every buffer shorter than 8 bytes, and HeaderTooLarge for every buffer of at
\* least 8 bytes whose first 8 bytes decode to more than 100,000,000, whatever
\* follows them.
C10_HeaderSizeLimits ==
    mres /= NoResult =>
        /\ Len(buffer) < 8 => mres = Err("HeaderTooSmall")
        /\ (Len(buffer) >= 8 /\ DecodesAbove(SubSeq(buffer, 1, 8), 100000000))
              => mres = Err("HeaderTooLarge")

\* read_metadata has returned HeaderTooLarge on a buffer that holds a whole
\* well-formed header and payload after a length prefix above the limit
C10_Witness ==
    /\ mres = Err("HeaderTooLarge")
    /\ Len(buffer) > 8 + 2
    /\ DecodesAbove(SubSeq(buffer, 1, 8), 100000000)

\* the tensors the header of b lists, by name
ListedTensors(b) == ParseHeader(HeaderBytes(b)).val.tensors

\* the buffers whose header lists the entries of b's header in each key order,
\* with the payload of b
Relisted(b) ==
    { FileOf(PaddedHeader(JsonHeader(ParseHeader(HeaderBytes(b)).val.metadata, p)),
             Slice0(b, N_LEN + HeaderSize(b).val, Len(b))) :
        p \in UNION { SupplyOrders(o) : o \in SortedOrders(ListedTensors(b)) } }

\* two results of read_metadata are the same outcome: the same error, or the
\* same Metadata (the header length aside)
SameOutcome(r, q) ==
    IF IsOk(r) /\ IsOk(q) THEN r.val.metadata = q.val.metadata ELSE r = q

\* C23: read-side order independence.  read_metadata gives the same outcome
\* on every buffer whose header lists the same entries in another key order:
\* the same error with the same tensor name, or a Metadata with the same name
\* at every position; and the entries of that Metadata are in ascending order
\* of data_offsets.
C23_ReadOrderIndependence ==
    ( /\ mres /= NoResult
      /\ HeaderParses(buffer)
      /\ Cardinality(DOMAIN ListedTensors(buffer)) <= MaxEntries )
    => /\ \A b \in Relisted(buffer) :
             \A r \in read_metadata(b, overflow_checks) : SameOutcome(r, mres)
       /\ IsOk(mres) =>
             \A i \in 1..(Len(mres.val.metadata.tensors) - 1) :
                 ~OffsetsLess(mres.val.metadata.tensors[i + 1].data_offsets,
                              mres.val.metadata.tensors[i].data_offsets)

(***************************************************************************)
(* Claims on the constructors, checked under SpecMeta.                     *)
(***************************************************************************)
\* the end offset of the entry before entry i, 0 before the first
PrevEnd(pairs, i) == IF i = 1 THEN 0 ELSE pairs[i - 1][2].data_offsets[2]

\* entry i does not start where the entry before it ends, or ends below its
\* start
OffsetBroken(pairs, i) ==
    \/ pairs[i][2].data_offsets[1] /= PrevEnd(pairs, i)
    \/ pairs[i][2].data_offsets[2] < pairs[i][2].data_offsets[1]

\* the product of a shape modulo 8
RECURSIVE ProdMod8(_)
ProdMod8(shape) ==
    IF shape = <<>> THEN 1 ELSE ((Head(shape) % 8) * ProdMod8(Tail(shape))) % 8

\* product(shape) * bitwidth(dtype) is not a multiple of 8
Misaligned(dtype, shape) == (ProdMod8(shape) * bitsize(dtype)) % 8 /= 0

\* product(shape) * bitwidth(dtype) fits the machine word
BitsFit(dtype, shape) == MathProduct(shape) <= UsizeMax \div bitsize(dtype)

\* the entry's bit count fits the word and is a multiple of 8, and the entry
\* spans product(shape) * bitwidth(dtype) / 8 bytes
EntrySound(info) ==
    /\ BitsFit(info.dtype, info.shape)
    /\ ~Misaligned(info.dtype, info.shape)
    /\ info.data_offsets[2] - info.data_offsets[1]
          = (MathProduct(info.shape) * bitsize(info.dtype)) \div 8

\* C7: offset contiguity.  Metadata::new fails with InvalidOffset(name) when
\* some entry does not start where the previous entry ends (0 for the first)
\* or ends below its start, and the name in the error is the name of the first
\* such entry.  Stated for the lists whose entries before the offending one
\* are valid in every other respect.
C7_OffsetContiguity ==
    got.op = "Metadata::new" =>
        \A i \in 1..Len(got.pairs) :
            ( /\ OffsetBroken(got.pairs, i)
              /\ \A j \in 1..(i - 1) :
                    ~OffsetBroken(got.pairs, j) /\ EntrySound(got.pairs[j][2]) )
            => got.res = ErrName("InvalidOffset", got.pairs[i][1])

\* C8: sub-byte alignment.  An entry whose product(shape) * bitwidth(dtype) is
\* not a multiple of 8, in a list of contiguous offsets, is rejected with
\* MisalignedSlice by Metadata::new, and such a dtype and shape is rejected
\* with MisalignedSlice by TensorView::new; no Metadata and no TensorView with
\* such a bit count is constructed.  For Metadata::new, stated for the lists
\* whose misaligned entry has a bit count that fits the word and whose other
\* entries are valid.
C8_SubByteAlignment ==
    /\ got.op = "Metadata::new" =>
          /\ ( /\ \A i \in 1..Len(got.pairs) : ~OffsetBroken(got.pairs, i)
               /\ \E i \in 1..Len(got.pairs) :
                     Misaligned(got.pairs[i][2].dtype, got.pairs[i][2].shape)
               /\ \A i \in 1..Len(got.pairs) :
                     \/ EntrySound(got.pairs[i][2])
                     \/ /\ Misaligned(got.pairs[i][2].dtype, got.pairs[i][2].shape)
                        /\ BitsFit(got.pairs[i][2].dtype, got.pairs[i][2].shape) )
             => got.res = Err("MisalignedSlice")
          /\ IsOk(got.res) =>
                \A i \in 1..Len(got.pairs) :
                    ~Misaligned(got.pairs[i][2].dtype, got.pairs[i][2].shape)
    /\ got.op = "TensorView::new" =>
          /\ Misaligned(got.dtype, got.shape) => view = Err("MisalignedSlice")
          /\ IsOk(view) => ~Misaligned(got.dtype, got.shape)

\* entry i is reached by the validation and passes its checks up to the size
\* comparison: it and the entries before it follow each other, the entries
\* before it are valid, and its bit count fits the word and is a multiple of 8
ReachesSizeCheck(pairs, i) ==
    /\ \A j \in 1..i : ~OffsetBroken(pairs, j)
    /\ \A j \in 1..(i - 1) : EntrySound(pairs[j][2])
    /\ BitsFit(pairs[i][2].dtype, pairs[i][2].shape)
    /\ ~Misaligned(pairs[i][2].dtype, pairs[i][2].shape)

\* C22: size consistency.  Metadata::new fails with TensorInvalidInfo when an
\* entry with contiguous offsets and a bit count that is a multiple of 8 spans
\* a number of bytes other than product(shape) * bitwidth(dtype) / 8, be it by
\* one byte (stated for the first entry that fails a check); and every entry
\* of a constructed Metadata spans exactly that number of bytes.
C22_SizeConsistency ==
    got.op = "Metadata::new" =>
        /\ \A i \in 1..Len(got.pairs) :
              ( /\ ReachesSizeCheck(got.pairs, i)
                /\ ~EntrySound(got.pairs[i][2]) )
              => got.res = Err("TensorInvalidInfo")
        /\ IsOk(got.res) =>
              \A i \in 1..Len(got.pairs) :
                  got.pairs[i][2].data_offsets[2] - got.pairs[i][2].data_offsets[1]
                      = (MathProduct(got.pairs[i][2].shape)
                            * bitsize(got.pairs[i][2].dtype)) \div 8

\* Metadata::new has refused a list whose second entry, after a valid first
\* one, is one byte short of its size
C22_Witness ==
    /\ got.op = "Metadata::new"
    /\ Len(got.pairs) = 2
    /\ ReachesSizeCheck(got.pairs, 2)
    /\ got.pairs[2][2].data_offsets[2] - got.pairs[2][2].data_offsets[1] + 1
          = (MathProduct(got.pairs[2][2].shape) * bitsize(got.pairs[2][2].dtype)) \div 8
    /\ got.res = Err("TensorInvalidInfo")

\* C25: the name index is a bijection.  For every list of pairs on which
\* Metadata::new succeeds, lists that repeat a name included, exactly one name
\* is mapped to each position 0..len-1 of the TensorInfo sequence, and every
\* mapped index is below the number of names.
C25_NameIndexBijection ==
    (got.op = "Metadata::new" /\ IsOk(got.res)) =>
        /\ \A i \in 0..(Len(got.res.val.tensors) - 1) :
              Cardinality({n \in DOMAIN got.res.val.index_map :
                             got.res.val.index_map[n] = i}) = 1
        /\ \A n \in DOMAIN got.res.val.index_map :
              got.res.val.index_map[n] < Cardinality(DOMAIN got.res.val.index_map)

\* C17: explicit overflow.  Metadata::new and TensorView::new never panic,
\* and a shape and dtype whose element count or bit count exceeds the machine
\* word is reported as ValidationOverflow: by TensorView::new always, by
\* Metadata::new when the entry is reached, that is when its offsets and the
\* entries before it are valid.  No view of such a shape is constructed from a
\* wrapped count.
C17_ExplicitOverflow ==
    /\ got.op = "Metadata::new" =>
          /\ got.res /= Panicked
          /\ \A i \in 1..Len(got.pairs) :
                ( /\ ~BitsFit(got.pairs[i][2].dtype, got.pairs[i][2].shape)
                  /\ ~OffsetBroken(got.pairs, i)
                  /\ \A j \in 1..(i - 1) :
                        ~OffsetBroken(got.pairs, j) /\ EntrySound(got.pairs[j][2]) )
                => got.res = Err("ValidationOverflow")
    /\ got.op = "TensorView::new" =>
          /\ view /= Panicked
          /\ ~BitsFit(got.dtype, got.shape) => view = Err("ValidationOverflow")

(***************************************************************************)
(* Claims on the Dtype catalogue, checked under SpecDtype.                 *)
(***************************************************************************)
\* C18: the Dtype order follows the bit width.  For every pair of variants a
\* and b, a < b implies bitsize(a) <= bitsize(b).
C18_DtypeOrderFollowsBitWidth ==
    (got.op = "Dtype::lt" /\ got.res) => bitsize(got.a) <= bitsize(got.b)

(***************************************************************************)
(* Claims on slicing, checked under SpecSlice.                             *)
(***************************************************************************)
\* the resolved ranges <<start_i, end_i>> of the accepted slice specification
RangesOf(v, slices) == ResolveDims(v.shape, slices, 0, <<>>, overflow_checks).val

\* the product of the entries of s after position i
RECURSIVE ProductAfter(_, _)
ProductAfter(s, i) ==
    IF i >= Len(s) THEN 1 ELSE Min(UsizeMod, s[i + 1] * ProductAfter(s, i + 1))

\* the selected shape
NewShapeOf(ranges) == [i \in 1..Len(ranges) |-> ranges[i][2] - ranges[i][1]]

\* the i-th coordinate of the k-th (from 0) multi-index over new_shape in
\* row-major order
CoordOf(k, new_shape, i) ==
    IF new_shape[i] = 0 THEN 0 ELSE (k \div ProductAfter(new_shape, i)) % new_shape[i]

\* sum over the dimensions 1..i of (start + coordinate) * row-major stride of
\* the original shape
RECURSIVE AddressUpTo(_, _, _, _)
AddressUpTo(k, shape, ranges, i) ==
    IF i = 0 THEN 0
    ELSE AddressUpTo(k, shape, ranges, i - 1)
         + (ranges[i][1] + CoordOf(k, NewShapeOf(ranges), i)) * ProductAfter(shape, i)

\* C5: slice addressing.  For a byte-aligned view and an accepted slice
\* specification, the k-th item returned by next() is the byte range
\* [a*s, (a+1)*s) of the view's buffer, with s = bitwidth/8 and a the sum of
\* (start_i + c_i) * stride_i for the k-th multi-index c over new_shape in
\* row-major order (index 1 on dimension 0 of a U8 tensor of shape [2,3,4]
\* gives the addresses 12..24).
C5_SliceAddressing ==
    ( /\ IsOk(view)
      /\ IsOk(it)
      /\ bitsize(view.val.dtype) % 8 = 0 )
    => \A k \in 1..Len(items) :
          items[k].some =>
             /\ items[k].start
                   = AddressUpTo(k - 1, view.val.shape, RangesOf(view.val, got.slices),
                                 Len(view.val.shape)) * (bitsize(view.val.dtype) \div 8)
             /\ items[k].end = items[k].start + bitsize(view.val.dtype) \div 8
             /\ items[k].data = Slice0(view.val.data, items[k].start, items[k].end)

\* C6: slice element count.  For an accepted slice specification, next()
\* returns Some on each of its first product(new_shape) calls and None on the
\* call after them, and each item returned has bitwidth/8 bytes.
C6_SliceElementCount ==
    ( /\ IsOk(view)
      /\ IsOk(it) )
    => \A k \in 1..Len(items) :
          IF k <= ProductAfter(NewShapeOf(RangesOf(view.val, got.slices)), 0)
          THEN /\ items[k].some
               /\ Len(items[k].data) = bitsize(view.val.dtype) \div 8
          ELSE k = ProductAfter(NewShapeOf(RangesOf(view.val, got.slices)), 0) + 1
                  => ~items[k].some

\* sliced_data has been called on the view and next() has not: it holds what
\* SliceIterator::new returned
Constructed == IsOk(view) /\ got.op = "sliced_data" /\ items = <<>>

IsOutOfRange(r) == r.tag = "Err" /\ r.err = "SliceOutOfRange"

\* the start and the end a bound resolves to, as integers
MathStart(b) == IF b[1] = "Included" THEN b[2] ELSE IF b[1] = "Excluded" THEN b[2] + 1 ELSE 0
MathEnd(b, dim_size) ==
    IF b[1] = "Included" THEN b[2] + 1 ELSE IF b[1] = "Excluded" THEN b[2] ELSE dim_size

\* the spec resolves out of the dimension: start >= dim_size, end > dim_size
\* or start > end
OpOutOfRange(op, dim_size) ==
    IF op.op = "Single" THEN op.idx >= dim_size
    ELSE \/ MathStart(op.lo) >= dim_size
         \/ MathEnd(op.hi, dim_size) > dim_size
         \/ MathStart(op.lo) > MathEnd(op.hi, dim_size)

\* dimension i (from 0) is specified and a spec given for it is out of range
DimOutOfRange(shape, slices, i) ==
    /\ i < Len(slices)
    /\ i < Len(shape)
    /\ \E k \in 1..Len(slices[i + 1]) : OpOutOfRange(slices[i + 1][k], shape[i + 1])

\* C14: slice range check.  On a byte-aligned view, with no more specs than
\* dimensions, SliceIterator::new fails with SliceOutOfRange exactly when some specified
\* dimension has a resolved start >= dim_size, a resolved end > dim_size or
\* start > end; dim_index is such a dimension, dim_size its extent, and for a
\* single index the reported asked is that index.
C14_SliceRangeCheck ==
    ( /\ Constructed
      /\ bitsize(view.val.dtype) % 8 = 0
      /\ Len(got.slices) <= Len(view.val.shape) )
    => /\ IsOutOfRange(it)
             <=> \E i \in 0..(Len(view.val.shape) - 1) :
                    DimOutOfRange(view.val.shape, got.slices, i)
       /\ IsOutOfRange(it) =>
             /\ DimOutOfRange(view.val.shape, got.slices, it.dim_index)
             /\ it.dim_size = view.val.shape[it.dim_index + 1]
             /\ ( /\ Len(got.slices[it.dim_index + 1]) = 1
                  /\ got.slices[it.dim_index + 1][1].op = "Single" )
                   => it.asked = got.slices[it.dim_index + 1][1].idx

\* the extents an accepted specification selects when every dimension
\* without a spec is taken whole
SelectedShape(v, slices) ==
    [i \in 1..Len(v.shape) |->
        IF i <= Len(slices) THEN RangesOf(v, slices)[i][2] - RangesOf(v, slices)[i][1]
        ELSE v.shape[i]]

C16_SubByteSliceRejected ==
    ( /\ IsOk(view)
      /\ got.op = "sliced_data"
      /\ bitsize(view.val.dtype) % 8 /= 0 )
    => /\ it = Err("MisalignedSlice")
       /\ \A k \in 1..Len(items) : items[k].some => Len(items[k].data) > 0

\* the view of the slicing tests: U8, shape [2,3,4], 24 bytes of any content
TestView ==
    /\ IsOk(view)
    /\ view.val.dtype = "U8"
    /\ view.val.shape = <<2, 3, 4>>
    /\ Len(view.val.data) = 24

C21_OdometerBound ==
    ( /\ IsOk(view)
      /\ IsOk(it)
      /\ got.op = "sliced_data"
      /\ bitsize(view.val.dtype) % 8 = 0 )
    => \A i \in 1..Len(it.val.current) :
          IF NewShapeOf(RangesOf(view.val, got.slices))[i] = 0
          THEN it.val.current[i] = 0
          ELSE it.val.current[i] < NewShapeOf(RangesOf(view.val, got.slices))[i]

\* C24: slice iteration terminates and stays terminated.  For an accepted
\* slice specification the calls of next() (all of them, or those made from
\* some point of the sequence on) never panic, return Some at most
\* product(new_shape) times, have returned a None once more calls than that were
\* made, and return None on every call that follows a None.
C24_TerminatesAndStays ==
    ( /\ IsOk(view)
      /\ got.op = "sliced_data"
      /\ it /= NoResult
      /\ IsOk(SliceIteratorNew(view.val, got.slices, overflow_checks)) )
    => /\ it /= Panicked
       /\ Cardinality({k \in 1..Len(items) : items[k].some})
             <= ProductAfter(NewShapeOf(RangesOf(view.val, got.slices)), 0)
       /\ Len(items) > ProductAfter(NewShapeOf(RangesOf(view.val, got.slices)), 0)
             => \E k \in 1..Len(items) : ~items[k].some
       /\ \A k \in 1..(Len(items) - 1) : ~items[k].some => ~items[k + 1].some

============================================================================
